---- MODULE Spec2Model ----
(***************************************************************************)
(* GeckoAsyncSpaMan (geckolib/async_spa_manager.py): the connection        *)
(* lifecycle manager, its event dispatcher and its sequence pump.          *)
(*                                                                         *)
(* The manager runs on one asyncio loop.  A task runs without interruption *)
(* from one await that suspends to the next, so every action below is one  *)
(* such segment of one task.  The awaits that can suspend are the abstract *)
(* handler (handle_event), Locator.discover(), Session.connect(),          *)
(* Session.disconnect() and asyncio.sleep(0).                              *)
(*                                                                         *)
(* Optional values: None is the empty sequence, a present value x is <<x>>.*)
(*                                                                         *)
(* Tasks: "pump" is _sequence_pump, "main" is the host task that enters    *)
(* the scope, calls the public operations one after the other and leaves   *)
(* the scope, "sess" stands for the Sessions' calls of the event callback  *)
(* (re-entrant: pc["sess"] only tells whether a dispatch is suspended).    *)
(* pc[t] names the await task t is suspended in:                           *)
(*   notstarted, idle, done, exited   outside any operation (idle: the     *)
(*                   pump in asyncio.sleep(0), the host between two calls) *)
(*   enter_handler   __aenter__, in the handler of the enter event         *)
(*   loc_started     async_locate_spas, in the handler of locating-started *)
(*   loc_discover    async_locate_spas, in locator.discover()              *)
(*   loc_finished    async_locate_spas, in the handler of locating-finished*)
(*   nf_handler      async_connect, in the handler of device-not-found     *)
(*   cts_started     async_connect_to_spa, handler of connection-started   *)
(*   cts_connect     async_connect_to_spa, in self._spa.connect()          *)
(*   cts_finished    async_connect_to_spa, handler of connection-finished  *)
(*   reset_disc      async_reset, in self._spa.disconnect()                *)
(*   wait_desc       wait_for_descriptors, in asyncio.sleep(0)             *)
(*   wait_facade     wait_for_facade, in asyncio.sleep(0)                  *)
(***************************************************************************)
EXTENDS Naturals, Sequences, FiniteSets

\* ---------------------------------------------------------------- bounds
MaxSessions == 2        \* connection attempts (sessions) over one run
MaxCallerOps == 1       \* operations the caller invokes inside the scope
MaxWaits == 2           \* wait_for_* calls of a caller that only waits
MaxSuspended == 2       \* dispatches of ping-received suspended in a reset at once

\* ---------------------------------------------------------------- values
None == <<>>
Some(x) == <<x>>

Tasks == {"pump", "main", "sess"}

SessionIds == 1 .. MaxSessions

\* GeckoSpaState
ErrorResetStates == {"ERROR_PING_MISSED", "ERROR_RF_FAULT", "ERROR_NEEDS_ATTENTION"}

SpaStates ==
    {"IDLE", "LOCATING_SPAS", "CONNECTING", "SPA_READY", "CONNECTED",
     "ERROR_SPA_NOT_FOUND"} \cup ErrorResetStates

\* GeckoSpaEvent values that a Session reports through the event callback
HandshakeEvents == {"CONNECTION_SPA_COMPLETE", "CONNECTION_PROTOCOL_RETRY_COUNT_EXCEEDED"}

RunningEvents ==
    {"RUNNING_PING_NO_RESPONSE", "RUNNING_PING_RECEIVED", "ERROR_RF_ERROR",
     "ERROR_PROTOCOL_RETRY_COUNT_EXCEEDED", "ERROR_TOO_MANY_RF_ERRORS"}

\* what Locator.spas can hold after discover(): descriptors are numbered
LocatorResults == {<<>>, <<2, 1>>}

\* the hints kwargs a caller constructs the manager with:
\* <<spa_address, spa_identifier, spa_name>>, None for a kwarg left out
InitHintInputs ==
    {<<None, None, None>>, <<Some(""), Some(""), Some("")>>,
     <<None, Some("A"), None>>}

\* the kwargs with exactly one hint
OneHintInputs ==
    {<<None, Some("A"), None>>, <<Some("A"), None, None>>,
     <<None, None, Some("A")>>}

\* the hints the caller reconfigures with: <<address, identifier, name>>
SetInfoInputs ==
    {<<None, None, None>>, <<None, Some("A"), None>>, <<Some("A"), Some(""), Some("")>>}

\* keyword payloads
NoKw == [none |-> None]

VARIABLES
    spa_address,      \* self._spa_address
    spa_identifier,   \* self._spa_identifier
    spa_name,         \* self._spa_name
    spa_descriptors,  \* self._spa_descriptors: None or Some(list)
    facade,           \* self._facade: None or Some(the session value it wraps)
    spa,              \* self._spa: None or Some(session id)
    spa_state,        \* self._spa_state
    status_line,      \* self._status_line: <<state, event>> of the last dispatch
    pc,               \* where each task is suspended
    loc,              \* each task's local variables
    sessSt,           \* each Session: "new", "handshake", "ready", "closed"
    attempts,         \* sessions handed out so far
    cancelReq,        \* the pump task has been cancelled, not yet delivered
    dispatching,      \* dispatches entered and not yet forwarded, oldest first
    forwardedLast,    \* the last call of the abstract handler
    opsDone           \* caller operations started

vars == <<spa_address, spa_identifier, spa_name, spa_descriptors, facade, spa,
          spa_state, status_line, pc, loc, sessSt, attempts, cancelReq, dispatching,
          forwardedLast, opsDone>>

hints == <<spa_address, spa_identifier, spa_name>>

\* ------------------------------------------------------------ dispatcher

\* the state ERROR_NEEDS_ATTENTION events
NeedsAttentionEvents ==
    {"CONNECTION_PROTOCOL_RETRY_COUNT_EXCEEDED",
     "ERROR_PROTOCOL_RETRY_COUNT_EXCEEDED", "ERROR_TOO_MANY_RF_ERRORS"}

\* StateAfter as it would be if locating-finished, like connection-finished
\* without a facade, left the state as it was.
StateAfterFinishedKeepsState(event, st, fac) ==
    CASE event = "LOCATING_STARTED" -> "LOCATING_SPAS"
      [] event = "SPA_NOT_FOUND" -> "ERROR_SPA_NOT_FOUND"
      [] event = "CONNECTION_STARTED" -> "CONNECTING"
      [] event = "CONNECTION_SPA_COMPLETE" -> "SPA_READY"
      [] event = "CONNECTION_FINISHED" -> IF fac # None THEN "CONNECTED" ELSE st
      [] event = "RUNNING_PING_NO_RESPONSE" -> "ERROR_PING_MISSED"
      [] event = "ERROR_RF_ERROR" -> "ERROR_RF_FAULT"
      [] event \in NeedsAttentionEvents -> "ERROR_NEEDS_ATTENTION"
      [] OTHER -> st

\* _handle_event's if/elif chain, all branches but the reset of ping-received:
\* the state after `event` is dispatched in state st with self._facade = fac.
StateAfter(event, st, fac) ==
    CASE event = "LOCATING_STARTED" -> "LOCATING_SPAS"
      [] event = "LOCATING_FINISHED" -> "IDLE"
      [] event = "SPA_NOT_FOUND" -> "ERROR_SPA_NOT_FOUND"
      [] event = "CONNECTION_STARTED" -> "CONNECTING"
      [] event = "CONNECTION_SPA_COMPLETE" -> "SPA_READY"
      [] event = "CONNECTION_FINISHED" -> IF fac # None THEN "CONNECTED" ELSE st
      [] event = "RUNNING_PING_NO_RESPONSE" -> "ERROR_PING_MISSED"
      [] event = "ERROR_RF_ERROR" -> "ERROR_RF_FAULT"
      [] event \in NeedsAttentionEvents -> "ERROR_NEEDS_ATTENTION"
      [] OTHER -> st

\* ping-received awaits async_reset() before it is forwarded
PingResets(event, st) ==
    event = "RUNNING_PING_RECEIVED" /\ st \in ErrorResetStates

\* the call of the abstract handler: handle_event(event, **kwargs), made by
\* task t while `ahead` earlier dispatches have not reached their own call
Forwarded(t, event, kw, ahead) ==
    [task |-> t, ev |-> event, kw |-> kw, ahead |-> ahead]

\* await self.handle_event(event, **kwargs)
ForwardOf(t, event, kw, ahead) == Forwarded(t, event, kw, ahead)

\* _handle_event(event, **kwargs) when it does not suspend before the handler
\* is called: the state is set and the event forwarded in one segment.
Dispatch(t, event, kw, fac) ==
    /\ spa_state' = StateAfter(event, spa_state, fac)
    /\ status_line' = <<StateAfter(event, spa_state, fac), event>>
    /\ forwardedLast' = ForwardOf(t, event, kw, Len(dispatching))
    /\ UNCHANGED dispatching

\* ---------------------------------------------------------------- locals

NoRet == [kind |-> "none", val |-> None]
Return(v) == [kind |-> "return", val |-> v]
Raise(e) == [kind |-> "raise", val |-> Some(e)]

\* inAC: the call runs inside async_connect; args: <<spa_address,
\* spa_identifier>> of that async_connect call; exc: the exception in flight in a finally
\* block; sid: the Session this call constructs; desc: the descriptor it
\* connects to; ret: how the task's last operation ended; sawReady: the state
\* was SPA_READY at some moment of this connect-to-descriptor call; found:
\* locator.spas of this call's discovery, once discover() has returned.
InitLoc ==
    [inAC |-> FALSE, args |-> <<None, None>>, exc |-> "none", sid |-> 0,
     desc |-> 0, ret |-> NoRet, sawReady |-> FALSE, found |-> None]

\* __init__: an empty-string hint becomes None
Normalize(h) == IF h = Some("") THEN None ELSE h

\* the manager after __init__(client_uuid, **kwargs) with the hints h
Constructed(h) ==
    /\ spa_address = Normalize(h[1])
    /\ spa_identifier = Normalize(h[2])
    /\ spa_name = Normalize(h[3])
    /\ spa_descriptors = None
    /\ facade = None
    /\ spa = None
    /\ spa_state = "IDLE"
    /\ status_line = <<"IDLE", "none">>
    /\ pc = [t \in Tasks |-> IF t = "sess" THEN "idle" ELSE "notstarted"]
    /\ loc = [t \in Tasks |-> InitLoc]
    /\ sessSt = [s \in SessionIds |-> "new"]
    /\ attempts = 0
    /\ cancelReq = FALSE
    /\ dispatching = <<>>
    /\ forwardedLast = Forwarded("none", "none", NoKw, 0)
    /\ opsDone = 0

Init == \E h \in InitHintInputs : Constructed(h)

\* ------------------------------------------------- how an operation ends

\* The operation of task t returns or raises r to whoever called it.  The
\* caller's task goes on with r.  _sequence_pump drops what its awaits return
\* and goes to asyncio.sleep(0); it has no handler but the one that re-raises
\* CancelledError, so any exception ends the pump task.
Finish(t, r) ==
    /\ pc' = [pc EXCEPT ![t] = IF t = "pump" /\ r.kind = "raise" THEN "done" ELSE "idle"]
    /\ loc' = [loc EXCEPT ![t] = [InitLoc EXCEPT !.ret = IF t = "pump" /\ r.kind # "raise"
                                                         THEN NoRet ELSE r]]

\* ------------------------------------------------------ async_locate_spas

\* try: await self._handle_event(LOCATING_STARTED) up to the handler
BeginLocate(t, inAC, addr, ident, sid) ==
    /\ Dispatch(t, "LOCATING_STARTED", NoKw, facade)
    /\ pc' = [pc EXCEPT ![t] = "loc_started"]
    /\ loc' = [loc EXCEPT ![t] = [InitLoc EXCEPT !.inAC = inAC,
                                                !.args = IF inAC THEN <<addr, ident>>
                                                         ELSE <<None, None>>,
                                                !.sid = sid]]
    /\ UNCHANGED <<hints, spa_descriptors, facade, spa, sessSt, cancelReq>>

\* LocateFinally as it would be without the finally block: a fault in the
\* try block propagates at once, no finished event is dispatched.
LocateFinallySkipsOnFault(t, e, r) ==
    IF e = "none"
    THEN /\ Dispatch(t, "LOCATING_FINISHED", [spa_descriptors |-> spa_descriptors'], facade)
         /\ pc' = [pc EXCEPT ![t] = "loc_finished"]
         /\ loc' = [loc EXCEPT ![t].exc = e, ![t].found = r]
    ELSE /\ Finish(t, Raise(e))
         /\ UNCHANGED <<spa_state, status_line, forwardedLast, dispatching>>

\* finally: await self._handle_event(LOCATING_FINISHED, spa_descriptors=...)
\* with exception e in flight ("none": the try block completed); r is what
\* the Locator found, None when discover() did not return
LocateFinally(t, e, r) ==
    /\ Dispatch(t, "LOCATING_FINISHED", [spa_descriptors |-> spa_descriptors'], facade)
    /\ pc' = [pc EXCEPT ![t] = "loc_finished"]
    /\ loc' = [loc EXCEPT ![t].exc = e, ![t].found = r]

\* the handler of locating-started returns; the Locator is constructed and
\* the task suspends in locator.discover()
LocateAwaitDiscover(t) ==
    /\ pc[t] = "loc_started"
    /\ ~(t = "pump" /\ cancelReq)
    /\ pc' = [pc EXCEPT ![t] = "loc_discover"]
    /\ UNCHANGED <<hints, spa_descriptors, facade, spa, spa_state, status_line,
                   loc, sessSt, attempts, cancelReq, dispatching, forwardedLast,
                   opsDone>>

\* discover() returns: self._spa_descriptors = locator.spas, then the finally
DiscoverReturns(t) ==
    /\ pc[t] = "loc_discover"
    /\ ~(t = "pump" /\ cancelReq)
    /\ \E r \in LocatorResults :
         /\ spa_descriptors' = Some(r)
         /\ LocateFinally(t, "none", Some(r))
    /\ UNCHANGED <<hints, facade, spa, sessSt, attempts, cancelReq, opsDone>>

\* discover() raises: the finally runs with the exception in flight
DiscoverRaises(t) ==
    /\ pc[t] = "loc_discover"
    /\ ~(t = "pump" /\ cancelReq)
    /\ spa_descriptors' = spa_descriptors
    /\ LocateFinally(t, "error", None)
    /\ UNCHANGED <<hints, facade, spa, sessSt, attempts, cancelReq, opsDone>>

\* --------------------------------------------------- async_connect_to_spa

\* assert self._facade is None; try: await self._handle_event(CONNECTION_STARTED)
\* up to the handler.  A failed assertion raises before any event.
BeginConnectToSpa(t, d, sid) ==
    IF facade # None
    THEN /\ Finish(t, Raise("assert"))
         /\ UNCHANGED <<spa_state, status_line, forwardedLast, dispatching>>
    ELSE /\ Dispatch(t, "CONNECTION_STARTED", NoKw, facade)
         /\ pc' = [pc EXCEPT ![t] = "cts_started"]
         /\ loc' = [loc EXCEPT ![t] = [InitLoc EXCEPT !.inAC = loc[t].inAC,
                                                     !.desc = d, !.sid = sid]]

\* the handler of connection-started returns; self._spa = GeckoAsyncSpa(...)
\* and the task suspends in self._spa.connect()
ConnectConstructSession(t) ==
    /\ pc[t] = "cts_started"
    /\ ~(t = "pump" /\ cancelReq)
    /\ spa' = Some(loc[t].sid)
    /\ sessSt' = [sessSt EXCEPT ![loc[t].sid] = "handshake"]
    /\ pc' = [pc EXCEPT ![t] = "cts_connect"]
    /\ UNCHANGED <<hints, spa_descriptors, facade, spa_state, status_line, loc,
                   attempts, cancelReq, dispatching, forwardedLast, opsDone>>

\* FacadeAfterConnect as it would be without the state check: the facade is
\* built whenever connect() returns.
FacadeAlwaysBuilt(st, session, fac) == Some(session)

\* if self._spa_state == SPA_READY: self._facade = GeckoAsyncFacade(self._spa, self)
FacadeAfterConnect(st, session, fac) ==
    IF st = "SPA_READY" THEN Some(session) ELSE fac

\* finally: await self._handle_event(CONNECTION_FINISHED, facade=self._facade)
\* with exception e in flight ("none": the try block completed)
ConnectFinally(t, e) ==
    /\ Dispatch(t, "CONNECTION_FINISHED", [facade |-> facade'], facade')
    /\ pc' = [pc EXCEPT ![t] = "cts_finished"]
    /\ loc' = [loc EXCEPT ![t].exc = e]

\* connect() returns: the state is checked now, then the finally
ConnectReturns(t) ==
    /\ pc[t] = "cts_connect"
    /\ ~(t = "pump" /\ cancelReq)
    /\ facade' = FacadeAfterConnect(spa_state, spa, facade)
    /\ ConnectFinally(t, "none")
    /\ UNCHANGED <<hints, spa_descriptors, spa, sessSt, attempts, cancelReq, opsDone>>

\* connect() raises: the finally runs with the exception in flight
ConnectRaises(t) ==
    /\ pc[t] = "cts_connect"
    /\ ~(t = "pump" /\ cancelReq)
    /\ facade' = facade
    /\ ConnectFinally(t, "error")
    /\ UNCHANGED <<hints, spa_descriptors, spa, sessSt, attempts, cancelReq, opsDone>>

\* the handler of connection-finished returns: re-raise, or return self._facade
ConnectToSpaReturns(t) ==
    /\ pc[t] = "cts_finished"
    /\ ~(t = "pump" /\ cancelReq)
    /\ Finish(t, IF loc[t].exc # "none" THEN Raise(loc[t].exc) ELSE Return(facade))
    /\ UNCHANGED <<hints, spa_descriptors, facade, spa, spa_state, status_line,
                   sessSt, attempts, cancelReq, dispatching, forwardedLast, opsDone>>

\* ---------------------------------------------------------- async_connect

\* async_connect after async_locate_spas returned descs:
\* assert spa_descriptors is not None; if the list is empty, dispatch
\* SPA_NOT_FOUND (and return None); else connect to spa_descriptors[0].
AsyncConnectTail(t, descs) ==
    IF descs = None
    THEN /\ Finish(t, Raise("assert"))
         /\ UNCHANGED <<spa_state, status_line, forwardedLast, dispatching>>
    ELSE IF Len(descs[1]) = 0
    THEN /\ Dispatch(t, "SPA_NOT_FOUND",
                     [spa_address |-> loc[t].args[1],
                      spa_identifier |-> loc[t].args[2]], facade)
         /\ pc' = [pc EXCEPT ![t] = "nf_handler"]
         /\ loc' = loc
    ELSE BeginConnectToSpa(t, descs[1][1], loc[t].sid)

\* the handler of locating-finished returns: re-raise, or return
\* self._spa_descriptors, to the caller or to async_connect
LocateReturns(t) ==
    /\ pc[t] = "loc_finished"
    /\ ~(t = "pump" /\ cancelReq)
    /\ IF loc[t].exc # "none"
       THEN /\ Finish(t, Raise(loc[t].exc))
            /\ UNCHANGED <<spa_state, status_line, forwardedLast, dispatching>>
       ELSE IF ~loc[t].inAC
       THEN /\ Finish(t, Return(spa_descriptors))
            /\ UNCHANGED <<spa_state, status_line, forwardedLast, dispatching>>
       ELSE AsyncConnectTail(t, spa_descriptors)
    /\ UNCHANGED <<hints, spa_descriptors, facade, spa, sessSt, attempts,
                   cancelReq, opsDone>>

\* the handler of device-not-found returns: async_connect returns None
NotFoundReturns(t) ==
    /\ pc[t] = "nf_handler"
    /\ ~(t = "pump" /\ cancelReq)
    /\ Finish(t, Return(None))
    /\ UNCHANGED <<hints, spa_descriptors, facade, spa, spa_state, status_line,
                   sessSt, attempts, cancelReq, dispatching, forwardedLast, opsDone>>

\* ------------------------------------------------------------ async_reset

\* if self._facade is not None: self._facade = None
ResetClears(fac) == None

\* async_reset up to its only suspension: descriptors and facade are cleared;
\* with a session, disconnect() is awaited (the task suspends, state and
\* session not yet touched); without one the state is set to IDLE at once.
BeginReset ==
    /\ spa_descriptors' = None
    /\ facade' = ResetClears(facade)
    /\ IF spa # None
       THEN /\ sessSt' = [sessSt EXCEPT ![spa[1]] = "closed"]
            /\ UNCHANGED <<spa, spa_state>>
       ELSE /\ spa_state' = "IDLE"
            /\ UNCHANGED <<spa, sessSt>>

\* disconnect() returns: self._spa = None; self._spa_state = IDLE
EndReset ==
    /\ spa' = None
    /\ spa_state' = "IDLE"

\* ------------------------------------------- events reported by a Session

\* the events Session s can report now: the handshake's while its connect()
\* is being awaited, the running ones once the handshake has completed
SessionCanReport(s, e) ==
    \/ /\ sessSt[s] = "handshake"
       /\ e \in HandshakeEvents
       /\ \E t \in Tasks : pc[t] = "cts_connect" /\ loc[t].sid = s
    \/ /\ sessSt[s] = "ready"
       /\ e \in RunningEvents

\* Session s calls the event callback (_handle_event) with event e.
\* ping-received in one of the three error states awaits async_reset()
\* first, and with a session to disconnect the dispatch suspends there.
\* _handle_event is re-entrant and a Session reports from several tasks of
\* its own: a further event is dispatched at once, also while the handler
\* of an earlier one has not returned or while earlier dispatches of
\* ping-received are suspended in their reset.  pc["sess"] is "reset_disc"
\* while at least one such dispatch is suspended.
SessionDispatch(s, e) ==
    /\ SessionCanReport(s, e)
    /\ IF PingResets(e, spa_state)
       THEN /\ BeginReset
            /\ IF spa # None
               THEN /\ Len(dispatching) < MaxSuspended
                    /\ pc' = [pc EXCEPT !["sess"] = "reset_disc"]
                    /\ dispatching' = Append(dispatching,
                                             [task |-> "sess", ev |-> e, kw |-> NoKw])
                    /\ UNCHANGED <<status_line, forwardedLast>>
               ELSE /\ pc' = pc
                    /\ status_line' = <<spa_state', e>>
                    /\ forwardedLast' = ForwardOf("sess", e, NoKw, Len(dispatching))
                    /\ UNCHANGED dispatching
            /\ loc' = loc
       ELSE /\ Dispatch("sess", e, NoKw, facade)
            /\ pc' = pc
            /\ sessSt' = IF e = "CONNECTION_SPA_COMPLETE"
                         THEN [sessSt EXCEPT ![s] = "ready"] ELSE sessSt
            /\ loc' = [t \in Tasks |->
                         IF e = "CONNECTION_SPA_COMPLETE"
                            /\ pc[t] \in {"cts_started", "cts_connect"}
                         THEN [loc[t] EXCEPT !.sawReady = TRUE] ELSE loc[t]]
            /\ UNCHANGED <<spa_descriptors, facade, spa>>
    /\ UNCHANGED <<hints, attempts, cancelReq, opsDone>>

RemoveAt(q, i) == [j \in 1 .. (Len(q) - 1) |-> IF j < i THEN q[j] ELSE q[j + 1]]

\* disconnect() returns inside one of the suspended dispatches of
\* ping-received (in whatever order the disconnects complete): its reset
\* completes, the status line is rebuilt and the event is forwarded
SessionResetResumes ==
    /\ \E i \in 1 .. Len(dispatching) :
         /\ status_line' = <<"IDLE", dispatching[i].ev>>
         /\ forwardedLast' = ForwardOf("sess", dispatching[i].ev, dispatching[i].kw, i - 1)
         /\ dispatching' = RemoveAt(dispatching, i)
    /\ EndReset
    /\ pc' = [pc EXCEPT !["sess"] = IF Len(dispatching) = 1 THEN "idle" ELSE "reset_disc"]
    /\ UNCHANGED <<hints, spa_descriptors, facade, loc, sessSt, attempts,
                   cancelReq, opsDone>>

\* --------------------------------------------------------- _sequence_pump

\* PumpDecision as it would be without the identifier branch: the pump only
\* ever starts a discovery.
PumpDecisionLocateOnly(st, ident, fac, descs) ==
    IF st = "IDLE" /\ descs = None THEN "locate" ELSE "nothing"

\* what one iteration of the pump's loop starts, from the state and the hints
PumpDecision(st, ident, fac, descs) ==
    IF st = "IDLE"
    THEN IF ident # None
         THEN (IF fac = None THEN "connect" ELSE "nothing")
         ELSE (IF descs = None THEN "locate" ELSE "nothing")
    ELSE "nothing"

\* the pump wakes from asyncio.sleep(0) and starts
\* async_connect(self._spa_identifier, self._spa_address)
PumpConnect ==
    /\ pc["pump"] = "idle"
    /\ ~cancelReq
    /\ PumpDecision(spa_state, spa_identifier, facade, spa_descriptors) = "connect"
    /\ attempts < MaxSessions
    /\ attempts' = attempts + 1
    /\ BeginLocate("pump", TRUE, spa_address, spa_identifier, attempts + 1)
    /\ UNCHANGED opsDone

\* the pump wakes from asyncio.sleep(0) and starts
\* async_locate_spas(self._spa_address)
PumpLocate ==
    /\ pc["pump"] = "idle"
    /\ ~cancelReq
    /\ PumpDecision(spa_state, spa_identifier, facade, spa_descriptors) = "locate"
    /\ BeginLocate("pump", FALSE, spa_address, None, 0)
    /\ UNCHANGED <<attempts, opsDone>>

\* The CancelledError of cancel_key_tasks("SPAMAN") is thrown into the pump at
\* the await it is suspended in.  Inside a try block the finally runs (and
\* dispatches the finished event); elsewhere it propagates, and the pump's
\* except clause re-raises it.
PumpCancelled ==
    /\ cancelReq
    /\ pc["pump"] \in {"idle", "loc_started", "loc_discover", "loc_finished",
                       "nf_handler", "cts_started", "cts_connect", "cts_finished"}
    /\ cancelReq' = FALSE
    /\ IF pc["pump"] \in {"loc_started", "loc_discover"}
       THEN /\ spa_descriptors' = spa_descriptors
            /\ LocateFinally("pump", "cancel", None)
            /\ UNCHANGED facade
       ELSE IF pc["pump"] \in {"cts_started", "cts_connect"}
       THEN /\ facade' = facade
            /\ ConnectFinally("pump", "cancel")
            /\ UNCHANGED spa_descriptors
       ELSE /\ Finish("pump", Raise("cancel"))
            /\ UNCHANGED <<spa_descriptors, facade, spa_state, status_line,
                           forwardedLast, dispatching>>
    /\ UNCHANGED <<hints, spa, sessSt, attempts, opsDone>>

\* ------------------------------------------------- the scope and its caller

CallerAddresses == {None}
CallerIdentifiers == {Some("A")}
Descriptors == {1}

\* __aenter__ up to the handler of the enter event
Enter ==
    /\ pc["main"] = "notstarted"
    /\ Dispatch("main", "SPA_MAN_ENTER", NoKw, facade)
    /\ pc' = [pc EXCEPT !["main"] = "enter_handler"]
    /\ UNCHANGED <<hints, spa_descriptors, facade, spa, loc, sessSt, attempts,
                   cancelReq, opsDone>>

\* the handler returns: add_task(self._sequence_pump(), ...), return self
EnterStartsPump ==
    /\ pc["main"] = "enter_handler"
    /\ pc' = [pc EXCEPT !["main"] = "idle", !["pump"] = "idle"]
    /\ UNCHANGED <<hints, spa_descriptors, facade, spa, spa_state, status_line,
                   loc, sessSt, attempts, cancelReq, dispatching, forwardedLast,
                   opsDone>>

CallerCanStart ==
    /\ pc["main"] = "idle"
    /\ opsDone < MaxCallerOps
    /\ opsDone' = opsDone + 1

\* the caller awaits async_locate_spas(addr, ident)
CallerLocate(addr, ident) ==
    /\ CallerCanStart
    /\ BeginLocate("main", FALSE, addr, ident, 0)
    /\ UNCHANGED attempts

\* the caller awaits async_connect(ident, addr)
CallerConnect(ident, addr) ==
    /\ CallerCanStart
    /\ attempts < MaxSessions
    /\ attempts' = attempts + 1
    /\ BeginLocate("main", TRUE, addr, ident, attempts + 1)

\* the caller awaits async_connect_to_spa(d)
CallerConnectToSpa(d) ==
    /\ CallerCanStart
    /\ attempts < MaxSessions
    /\ attempts' = attempts + 1
    /\ BeginConnectToSpa("main", d, attempts + 1)
    /\ UNCHANGED <<hints, spa_descriptors, facade, spa, sessSt, cancelReq>>

\* the caller's reset, up to the suspension in disconnect() or, with no
\* session, to its end
CallerBeginReset ==
    /\ BeginReset
    /\ IF spa # None
       THEN /\ pc' = [pc EXCEPT !["main"] = "reset_disc"]
            /\ loc' = loc
       ELSE Finish("main", Return(None))
    /\ UNCHANGED <<status_line, attempts, cancelReq, dispatching, forwardedLast>>

\* the caller awaits async_reset()
CallerReset ==
    /\ CallerCanStart
    /\ CallerBeginReset
    /\ UNCHANGED hints

\* async_set_spa_info assigns the three hints as given
SetSpaInfo(a, i, n) ==
    /\ spa_address' = a
    /\ spa_identifier' = i
    /\ spa_name' = n

\* the caller awaits async_set_spa_info(a, i, n): the hints, then the reset
CallerSetSpaInfo(a, i, n) ==
    /\ CallerCanStart
    /\ SetSpaInfo(a, i, n)
    /\ CallerBeginReset

\* disconnect() returns in the caller's reset
CallerResetResumes ==
    /\ pc["main"] = "reset_disc"
    /\ EndReset
    /\ Finish("main", Return(None))
    /\ UNCHANGED <<hints, spa_descriptors, facade, status_line, sessSt, attempts,
                   cancelReq, dispatching, forwardedLast, opsDone>>

\* AsyncTasks.cancel_key_tasks("SPAMAN"): the pump task, unless it has ended,
\* is cancelled; the CancelledError is thrown when the task next runs
CancelKeyTasks ==
    cancelReq' = (pc["pump"] # "done")

\* Exit as it would be without cancel_key_tasks: the exit event is
\* dispatched, the pump is not cancelled.
ExitWithoutCancel ==
    /\ pc["main"] = "idle"
    /\ cancelReq' = cancelReq
    /\ Dispatch("main", "SPA_MAN_EXIT", [exc_info |-> None], facade)
    /\ pc' = [pc EXCEPT !["main"] = "exited"]
    /\ loc' = [loc EXCEPT !["main"] = InitLoc]
    /\ UNCHANGED <<hints, spa_descriptors, facade, spa, sessSt, attempts,
                   opsDone>>

\* __aexit__: cancel_key_tasks("SPAMAN"), then the exit event is dispatched,
\* then AsyncTasks.__aexit__; nothing of the manager changes after the
\* handler of the exit event has been called.  What the host's last call
\* returned is out of scope with the block.
Exit ==
    /\ pc["main"] = "idle"
    /\ CancelKeyTasks
    /\ Dispatch("main", "SPA_MAN_EXIT", [exc_info |-> None], facade)
    /\ pc' = [pc EXCEPT !["main"] = "exited"]
    /\ loc' = [loc EXCEPT !["main"] = InitLoc]
    /\ UNCHANGED <<hints, spa_descriptors, facade, spa, sessSt, attempts,
                   opsDone>>

\* ---------------------------------------------------------- specification

Workers == {"pump", "main"}

Next ==
    \/ Enter
    \/ EnterStartsPump
    \/ PumpConnect
    \/ PumpLocate
    \/ PumpCancelled
    \/ \E t \in Workers : LocateAwaitDiscover(t)
    \/ \E t \in Workers : DiscoverReturns(t)
    \/ \E t \in Workers : DiscoverRaises(t)
    \/ \E t \in Workers : LocateReturns(t)
    \/ \E t \in Workers : NotFoundReturns(t)
    \/ \E t \in Workers : ConnectConstructSession(t)
    \/ \E t \in Workers : ConnectReturns(t)
    \/ \E t \in Workers : ConnectRaises(t)
    \/ \E t \in Workers : ConnectToSpaReturns(t)
    \/ \E a \in CallerAddresses, i \in CallerIdentifiers \cup {None} : CallerLocate(a, i)
    \/ \E i \in CallerIdentifiers, a \in CallerAddresses : CallerConnect(i, a)
    \/ \E d \in Descriptors : CallerConnectToSpa(d)
    \/ CallerReset
    \/ \E h \in SetInfoInputs : CallerSetSpaInfo(h[1], h[2], h[3])
    \/ CallerResetResumes
    \/ \E s \in SessionIds, e \in HandshakeEvents \cup RunningEvents : SessionDispatch(s, e)
    \/ SessionResetResumes
    \/ Exit

Spec == Init /\ [][Next]_vars

\* ------------------------------------------- the manual sequence of a caller
\* A manager constructed without hints, inside its scope; the caller awaits
\* async_locate_spas() and then async_connect_to_spa(spa_descriptors[0]) with
\* the list the first call returned, and the Session's handshake completes
\* without a fault event.  opsDone counts the caller's calls made so far.

ManualInit ==
    /\ Init
    /\ hints = <<None, None, None>>

\* the caller awaits async_locate_spas()
ManualLocate ==
    /\ pc["main"] = "idle"
    /\ opsDone = 0
    /\ opsDone' = 1
    /\ BeginLocate("main", FALSE, None, None, 0)
    /\ UNCHANGED attempts

\* the caller awaits async_connect_to_spa(d), d the first descriptor of the
\* list that async_locate_spas returned
ManualConnectToSpa ==
    /\ pc["main"] = "idle"
    /\ opsDone = 1
    /\ loc["main"].ret.kind = "return"
    /\ loc["main"].ret.val # None
    /\ Len(loc["main"].ret.val[1]) > 0
    /\ opsDone' = 2
    /\ attempts' = attempts + 1
    /\ BeginConnectToSpa("main", loc["main"].ret.val[1][1], attempts + 1)
    /\ UNCHANGED <<hints, spa_descriptors, facade, spa, sessSt, cancelReq>>

ManualNext ==
    \/ Enter
    \/ EnterStartsPump
    \/ PumpLocate
    \/ ManualLocate
    \/ ManualConnectToSpa
    \/ \E t \in Workers : LocateAwaitDiscover(t)
    \/ \E t \in Workers : DiscoverReturns(t)
    \/ \E t \in Workers : DiscoverRaises(t)
    \/ \E t \in Workers : LocateReturns(t)
    \/ \E t \in Workers : ConnectConstructSession(t)
    \/ \E t \in Workers : ConnectReturns(t)
    \/ \E t \in Workers : ConnectToSpaReturns(t)
    \/ \E s \in SessionIds : SessionDispatch(s, "CONNECTION_SPA_COMPLETE")

ManualSpec == ManualInit /\ [][ManualNext]_vars

\* ------------------------------------------------ the pump left on its own
\* A manager constructed with one hint, inside its scope, whose caller starts
\* no operation but may wait (wait_for_descriptors, wait_for_facade).  The
\* Locator finds at least one spa and the Session's handshake completes
\* without a fault event before connect() returns.

\* wait_for_descriptors / wait_for_facade: `while <field> is None: await
\* asyncio.sleep(0)`.  The call returns at once when the field is set, else
\* the host suspends in the sleep; a wake-up that finds the field still None
\* sleeps again and changes nothing.
WaitBegin(field, label) ==
    /\ pc["main"] = "idle"
    /\ opsDone < MaxWaits
    /\ opsDone' = opsDone + 1
    /\ IF field # None
       THEN Finish("main", Return(None))
       ELSE /\ pc' = [pc EXCEPT !["main"] = label]
            /\ loc' = loc
    /\ UNCHANGED <<hints, spa_descriptors, facade, spa, spa_state, status_line,
                   sessSt, attempts, cancelReq, dispatching, forwardedLast>>

WaitPoll(field, label) ==
    /\ pc["main"] = label
    /\ field # None
    /\ Finish("main", Return(None))
    /\ UNCHANGED <<hints, spa_descriptors, facade, spa, spa_state, status_line,
                   sessSt, attempts, cancelReq, dispatching, forwardedLast, opsDone>>

WaitForDescriptors == WaitBegin(spa_descriptors, "wait_desc")
WaitForDescriptorsWakes == WaitPoll(spa_descriptors, "wait_desc")
WaitForFacade == WaitBegin(facade, "wait_facade")
WaitForFacadeWakes == WaitPoll(facade, "wait_facade")

AutoInit == \E h \in OneHintInputs : Constructed(h)

\* the steps of the pump task
AutoPump ==
    \/ PumpConnect
    \/ PumpLocate
    \/ LocateAwaitDiscover("pump")
    \/ LocateReturns("pump")
    \/ ConnectConstructSession("pump")
    \/ ConnectToSpaReturns("pump")

\* the steps the Locator and the Session complete: discover() returns with a
\* spa found, the handshake completes, connect() returns after it
AutoEnv ==
    \/ DiscoverReturns("pump") /\ spa_descriptors' # Some(<<>>)
    \/ \E s \in SessionIds : SessionDispatch(s, "CONNECTION_SPA_COMPLETE")
    \/ ConnectReturns("pump") /\ sessSt[loc["pump"].sid] = "ready"

\* the steps the host task is bound to take: entering the scope, and waking
\* from a wait whose field is set
AutoHost ==
    \/ Enter
    \/ EnterStartsPump
    \/ WaitForDescriptorsWakes
    \/ WaitForFacadeWakes

\* the pings of a Session whose handshake has completed
AutoPing == \E s \in SessionIds : SessionDispatch(s, "RUNNING_PING_RECEIVED")

AutoNext ==
    \/ AutoPump
    \/ AutoEnv
    \/ AutoHost
    \/ AutoPing
    \/ WaitForDescriptors
    \/ WaitForFacade

\* the event loop runs every task that is ready; the Locator and the Session
\* complete what they were asked
AutoSpec ==
    /\ AutoInit
    /\ [][AutoNext]_vars
    /\ WF_vars(AutoPump)
    /\ WF_vars(AutoEnv)
    /\ WF_vars(AutoHost)

\* ================================================================ claims

\* the step in which task t dispatches (and forwards) its finished event
DispatchesLocatingFinished(t) == pc[t] # "loc_finished" /\ pc'[t] = "loc_finished"
DispatchesConnectionFinished(t) == pc[t] # "cts_finished" /\ pc'[t] = "cts_finished"

\* C1: every event is forwarded to the handler in the order in which it was
\* passed to the dispatcher: when the handler is called for an event, no
\* event dispatched before it is still waiting to be forwarded.
C1_ForwardedInDispatchOrder ==
    forwardedLast.ahead = 0

\* C2: when the dispatch of ping-received in one of the three error states
\* forwards the event, the state is IDLE and descriptors, facade and session
\* are all null; a ping-received dispatched in any other state leaves the
\* state as it was.
C2_PingReceivedResets ==
    [][/\ SessionResetResumes
          => (/\ spa_state' = "IDLE"
              /\ spa_descriptors' = None
              /\ facade' = None
              /\ spa' = None)
       /\ (/\ \E s \in SessionIds : SessionDispatch(s, "RUNNING_PING_RECEIVED")
           /\ dispatching' = dispatching)
          => IF spa_state \in ErrorResetStates
             THEN /\ spa_state' = "IDLE"
                  /\ spa_descriptors' = None
                  /\ facade' = None
                  /\ spa' = None
             ELSE spa_state' = spa_state]_vars

\* C3: a connection-finished event that carries a facade is dispatched only
\* by a connect-to-descriptor call during which the state was SPA_READY, and
\* one that carries no facade leaves the state as it was (so never moves it
\* to CONNECTED).
C3_FinishedFacadeAfterReady ==
    [][\A t \in Workers :
         DispatchesConnectionFinished(t)
         => /\ forwardedLast'.ev = "CONNECTION_FINISHED"
            /\ forwardedLast'.kw.facade = facade'
            /\ forwardedLast'.kw.facade # None => loc[t].sawReady
            /\ forwardedLast'.kw.facade = None => spa_state' = spa_state]_vars

\* C3 witness: a connect call has forwarded connection-finished with a facade
\* and the state is CONNECTED
C3_Witness ==
    \E t \in Workers :
        /\ pc[t] = "cts_finished"
        /\ forwardedLast.task = t
        /\ forwardedLast.ev = "CONNECTION_FINISHED"
        /\ forwardedLast.kw.facade # None
        /\ loc[t].sawReady
        /\ spa_state = "CONNECTED"

\* C4: when connect-by-identifier goes on after its discovery returned,
\* device-not-found is dispatched exactly if that discovery found no
\* descriptor (and then no connection is started); if it found some, the
\* connection to the first of them is started.
C4_NotFoundIffEmpty ==
    [][\A t \in Workers :
         (/\ pc[t] = "loc_finished" /\ pc'[t] # "loc_finished"
          /\ loc[t].inAC /\ loc[t].exc = "none"
          /\ ~(t = "pump" /\ cancelReq))
         => IF loc[t].found = Some(<<>>)
            THEN /\ pc'[t] = "nf_handler"
                 /\ forwardedLast'.ev = "SPA_NOT_FOUND"
            ELSE /\ pc'[t] = "cts_started"
                 /\ forwardedLast'.ev = "CONNECTION_STARTED"
                 /\ loc'[t].desc = loc[t].found[1][1]]_vars

\* C5: a call that has dispatched locating-started (connection-started)
\* leaves its try block only by dispatching locating-finished
\* (connection-finished), also when discover() (connect()) raises or the task
\* is cancelled, and a fault propagates to the caller only from there.
C5_StartedPairedWithFinished ==
    [][\A t \in Workers :
         /\ (pc[t] \in {"loc_started", "loc_discover"}
             /\ pc'[t] \notin {"loc_started", "loc_discover"})
            => (/\ DispatchesLocatingFinished(t)
                /\ forwardedLast'.task = t
                /\ forwardedLast'.ev = "LOCATING_FINISHED")
         /\ (pc[t] \in {"cts_started", "cts_connect"}
             /\ pc'[t] \notin {"cts_started", "cts_connect"})
            => (/\ DispatchesConnectionFinished(t)
                /\ forwardedLast'.task = t
                /\ forwardedLast'.ev = "CONNECTION_FINISHED")]_vars

\* C5 witness: the scope was left and the pump, cancelled inside discover(),
\* has forwarded locating-finished with the cancellation still in flight
C5_Witness ==
    /\ pc["main"] = "exited"
    /\ pc["pump"] = "loc_finished"
    /\ loc["pump"].exc = "cancel"
    /\ forwardedLast.task = "pump"
    /\ forwardedLast.ev = "LOCATING_FINISHED"

\* C6: the facade is non-null only if the session is non-null, and a facade
\* never wraps a null session.
C6_FacadeOnlyWithSession ==
    /\ facade # None => spa # None
    /\ facade # Some(None)

\* C7: when connect-to-descriptor constructs its Session, the manager holds
\* no session and no facade.
C7_NoPriorSession ==
    [][\A t \in Workers :
         (pc[t] = "cts_started" /\ pc'[t] = "cts_connect")
         => (spa = None /\ facade = None)]_vars

\* C8: the pump task ends by cancellation only.
C8_PumpEndsOnlyByCancel ==
    pc["pump"] = "done" => loc["pump"].ret = Raise("cancel")

\* C9: the step that dispatches manager-exited has cancelled the pump (unless
\* it had ended); after it the pump dispatches no locating-started and no
\* connection-started, and when the pump task ends it ends by the
\* CancelledError.
C9_ExitCancelsPump ==
    [][/\ (pc["main"] # "exited" /\ pc'["main"] = "exited")
          => (/\ forwardedLast'.ev = "SPA_MAN_EXIT"
              /\ forwardedLast'.task = "main"
              /\ cancelReq' \/ pc["pump"] = "done")
       /\ pc["main"] = "exited"
          => (/\ ~(pc'["pump"] # pc["pump"] /\ pc'["pump"] \in {"loc_started", "cts_started"})
              /\ (pc["pump"] # "done" /\ pc'["pump"] = "done")
                 => loc'["pump"].ret = Raise("cancel"))]_vars

\* C9 witness: the scope was left while the pump was in discover(), the
\* cancellation has ended the pump and manager-exited was forwarded
C9_Witness ==
    /\ pc["main"] = "exited"
    /\ pc["pump"] = "done"
    /\ loc["pump"].ret = Raise("cancel")
    /\ forwardedLast.ev = "LOCATING_FINISHED"
    /\ forwardedLast.task = "pump"

\* C10: with no address, identifier or name hint the pump starts no
\* discovery and no connection.
C10_NoHintsPumpPassive ==
    [][(spa_address = None /\ spa_identifier = None /\ spa_name = None)
       => ~(pc["pump"] = "idle" /\ pc'["pump"] = "loc_started")]_vars

\* C11: in the manual sequence (no hints, pump running), when the caller's
\* connect-to-descriptor call sees its connect() return after
\* session-protocol-complete was dispatched during the call, it dispatches
\* connection-finished with a non-null facade and the state becomes
\* CONNECTED; and when the call returns, it returns that non-null facade and
\* the state is CONNECTED.
C11_ManualConnectEndsConnected ==
    [][/\ (/\ pc["main"] = "cts_connect" /\ pc'["main"] = "cts_finished"
           /\ loc["main"].sawReady)
          => (/\ forwardedLast'.ev = "CONNECTION_FINISHED"
              /\ forwardedLast'.kw.facade # None
              /\ facade' # None
              /\ spa_state' = "CONNECTED")
       /\ (/\ pc["main"] = "cts_finished" /\ pc'["main"] = "idle"
           /\ loc["main"].sawReady)
          => (/\ loc'["main"].ret.kind = "return"
              /\ loc'["main"].ret.val # None
              /\ loc'["main"].ret.val = facade'
              /\ spa_state' = "CONNECTED")]_vars

\* the ERROR_* states of GeckoSpaState
ErrorStates == ErrorResetStates \cup {"ERROR_SPA_NOT_FOUND"}

\* C12: a ping-received event dispatched in any of the four error states
\* starts a reset (the state is IDLE at once, or the dispatch is suspended in
\* the reset's disconnect()), and when the suspended dispatch resumes the
\* state is IDLE.
C12_PingReceivedRecovers ==
    [][/\ (/\ spa_state \in ErrorStates
           /\ \E s \in SessionIds : SessionDispatch(s, "RUNNING_PING_RECEIVED"))
          => (spa_state' = "IDLE" \/ Len(dispatching') > Len(dispatching))
       /\ SessionResetResumes => spa_state' = "IDLE"]_vars

\* a step in which async_reset reaches its last line (state IDLE): an explicit
\* reset of the caller, a reconfiguration, or the reset of the dispatcher on
\* ping-received, either without suspension or resuming from disconnect()
ResetCompletes ==
    \/ CallerReset /\ pc'["main"] = "idle"
    \/ \E h \in SetInfoInputs : CallerSetSpaInfo(h[1], h[2], h[3]) /\ pc'["main"] = "idle"
    \/ CallerResetResumes
    \/ SessionResetResumes
    \/ /\ PingResets("RUNNING_PING_RECEIVED", spa_state)
       /\ \E s \in SessionIds : SessionDispatch(s, "RUNNING_PING_RECEIVED")
       /\ dispatching' = dispatching

\* C13: every step that takes the state from an error state to a state that
\* is not an error state is a step in which a reset completes.
C13_OnlyResetLeavesError ==
    [][(spa_state \in ErrorStates /\ spa_state' \notin ErrorStates)
       => ResetCompletes]_vars

\* C14: none of the three hints is ever the empty string, and the pump never
\* runs connect-by-identifier with the empty string as identifier.
C14_NoEmptyHint ==
    /\ spa_address # Some("")
    /\ spa_identifier # Some("")
    /\ spa_name # Some("")
    /\ loc["pump"].args[2] # Some("")

\* C15: a manager constructed with any one hint and left on its own (a spa
\* is discoverable, the caller starts no operation) eventually dispatches
\* connection-started.
C15_AnyHintEventuallyConnects ==
    <>(forwardedLast.ev = "CONNECTION_STARTED")

\* C16: a manager constructed with an identifier hint and left on its own
\* (the Locator finds a spa, the handshake completes without a fault event)
\* eventually is in state CONNECTED with a non-null facade, and a caller
\* suspended in wait_for_facade eventually returns from it.
C16_IdentifierHintConnects ==
    /\ (spa_identifier # None) => <>(spa_state = "CONNECTED" /\ facade # None)
    /\ (spa_identifier # None /\ pc["main"] = "wait_facade")
          ~> (pc["main"] = "idle" /\ loc["main"].ret = Return(None))

\* C16 witness: the pump has connected while the caller is suspended in
\* wait_for_facade, which is about to return
C16_Witness ==
    /\ spa_identifier # None
    /\ pc["main"] = "wait_facade"
    /\ spa_state = "CONNECTED"
    /\ facade # None
    /\ pc["pump"] \in {"cts_finished", "idle"}

\* the events whose row of the transition table names one target state
TableEvents ==
    {"LOCATING_STARTED", "LOCATING_FINISHED", "SPA_NOT_FOUND", "CONNECTION_STARTED",
     "CONNECTION_SPA_COMPLETE", "RUNNING_PING_NO_RESPONSE", "ERROR_RF_ERROR",
     "CONNECTION_PROTOCOL_RETRY_COUNT_EXCEEDED", "ERROR_PROTOCOL_RETRY_COUNT_EXCEEDED",
     "ERROR_TOO_MANY_RF_ERRORS"}

\* the target state of that row
TableState(e) ==
    CASE e = "LOCATING_STARTED" -> "LOCATING_SPAS"
      [] e = "LOCATING_FINISHED" -> "IDLE"
      [] e = "SPA_NOT_FOUND" -> "ERROR_SPA_NOT_FOUND"
      [] e = "CONNECTION_STARTED" -> "CONNECTING"
      [] e = "CONNECTION_SPA_COMPLETE" -> "SPA_READY"
      [] e = "RUNNING_PING_NO_RESPONSE" -> "ERROR_PING_MISSED"
      [] e = "ERROR_RF_ERROR" -> "ERROR_RF_FAULT"
      [] OTHER -> "ERROR_NEEDS_ATTENTION"

\* C17: in every step that forwards an event to the handler, the state after
\* the step is the target state of the event's row of the transition table,
\* whatever the state was before; manager-entered and manager-exited leave
\* the state as it was; and the status line names that state and that event.
C17_StateMatchesTable ==
    [][(forwardedLast' # forwardedLast \/ status_line' # status_line)
       => /\ forwardedLast'.ev \in TableEvents
             => (/\ spa_state' = TableState(forwardedLast'.ev)
                 /\ status_line' = <<spa_state', forwardedLast'.ev>>)
          /\ forwardedLast'.ev \in {"SPA_MAN_ENTER", "SPA_MAN_EXIT"}
             => spa_state' = spa_state]_vars

\* C17 witness: locating-finished was forwarded by a discovery that found no
\* descriptor while a session is in place, and the state is IDLE
C17_Witness ==
    /\ forwardedLast.ev = "LOCATING_FINISHED"
    /\ forwardedLast.kw.spa_descriptors = Some(<<>>)
    /\ spa # None
    /\ spa_state = "IDLE"
    /\ status_line = <<"IDLE", "LOCATING_FINISHED">>

\* the decision as the claim states it: first the connect, else the
\* discovery, otherwise nothing
StatedDecision(st, ident, fac, descs) ==
    IF st # "IDLE" THEN "nothing"
    ELSE IF ident # None /\ fac = None THEN "connect"
    ELSE IF descs = None THEN "locate"
    ELSE "nothing"

\* C18: whenever the pump is about to run an iteration of its loop, what the
\* iteration starts is what the stated decision gives for the current state,
\* hints, facade and descriptors.
C18_PumpDecisionAsStated ==
    (pc["pump"] = "idle" /\ ~cancelReq)
    => PumpDecision(spa_state, spa_identifier, facade, spa_descriptors)
       = StatedDecision(spa_state, spa_identifier, facade, spa_descriptors)

\* C19: in every step in which the caller's async_reset() returns,
\* descriptors, facade and session are null and the state is IDLE afterwards,
\* and the hints are as they were.
C19_ResetPostconditions ==
    [][((CallerReset /\ pc'["main"] = "idle") \/ CallerResetResumes)
       => (/\ spa_descriptors' = None
           /\ facade' = None
           /\ spa' = None
           /\ spa_state' = "IDLE"
           /\ hints' = hints)]_vars

\* C20: in every state, those in which a reset is suspended in disconnect()
\* included, state CONNECTED implies that the facade is non-null.
C20_ConnectedHasFacade ==
    spa_state = "CONNECTED" => facade # None

====
